---- MODULE Spec2Model ----
(***************************************************************************)
(* Sign recognition in the SignAiTranslator mobile app: the feature        *)
(* matcher of DatasetService, the recognition pipeline of AIService with   *)
(* its Gemini fallback, and the camera screen that drives them.            *)
(*                                                                         *)
(* Numbers.  A feature component and an entry's confidence weight are kept *)
(* in hundredths (80 is 0.8).  Every derived number (a similarity, a       *)
(* combined confidence) is an exact fraction [num, den]; the fraction 0/0  *)
(* is JavaScript's NaN, which is what 0/0 evaluates to in the source.      *)
(* Strings are sequences of one-character strings, so that trimming,       *)
(* lower-casing and the regular-expression replace act on characters.      *)
(***************************************************************************)
EXTENDS Integers, Sequences, FiniteSets, TLC

VARIABLES
    \* the environment
    apiKeyEnv,           \* process.env.EXPO_PUBLIC_AI_API_KEY: None or Some(key)
    supabaseConfigured,  \* isSupabaseConfigured()
    remote,              \* the rows of 'datasets' with status 'completed'
    \* DatasetService (services/datasetService.ts)
    dataset, isLoaded,
    \* GeminiService (services/aiService.ts)
    genAI, flashModel, proModel, currentApiKey, isInitializing, initPromise,
    clients,             \* how many times "new GoogleGenerativeAI(apiKey)" has run
    ctorPc,              \* the constructor's initializeGemini(): "await" or "done"
    \* one call of AIService.recognizeSign (unnamed/part_010)
    rpc,                 \* where the call stands
    caller,              \* "direct" or "camera"
    image,               \* imageBase64: None (undefined) or Some(char codes)
    mockFeatures,        \* extractImageFeatures(imageBase64)
    datasetResult,       \* what datasetService.recognizeSign returned
    ownsInit,            \* the call runs performInitialization itself
    awaited,             \* the settled state of the awaited initPromise
    geminiInvoked,       \* geminiService.recognizeSign was called
    requests,            \* generateContent requests sent during the call
    external,            \* how the external call ended
    geminiRaw,           \* response.text() of the answer
    geminiResult,        \* the promise geminiService.recognizeSign returned
    result,              \* the promise AIService.recognizeSign returned
    \* the camera screen (app/(tabs)/index.tsx)
    cpc, isCameraReady, isCapturing, translatedText, photo, camFeatures, alert,
    shownFrom,           \* which statement set translatedText last
    shownFor,            \* the result.text that the shown text was made from
    \* calculateSimilarity applied to two vectors
    simA, simB,          \* the two argument vectors
    simDone,             \* calculateSimilarity has been applied to them
    simAB, simBA,        \* datasetService.ts: f(simA, simB) and f(simB, simA)
    simEntryAB, simEntryBA, \* unnamed/part_010:  the same two applications
    \* the matchers applied to one reference set and one query
    refSet,              \* the reference set held by the service
    query,               \* the feature vector asked for
    findCase,            \* findSignInDataset: "loaded", "load_failed" or "no_features"
    matchDone,           \* the matchers have been applied
    similarities,        \* recognizeSign: the similarity computed for each entry
    matchBest,           \* recognizeSign: bestMatch and bestSimilarity after the loop
    matchResult,         \* what recognizeSign returned
    found,               \* what findSignInDataset returned
    \* callers of DatasetService (services/datasetService.ts) and an upload
    calls,               \* the calls of recognizeSign, by caller
    upc,                 \* uploadDataset: "idle", "insert" or "load"
    uploadRow,           \* the row uploadDataset inserts
    \* one call of GeminiService.updateApiKey, in one of its three copies
    keyCopy,             \* the copy of the service: "admin", "part_011" or "mobile"
    kpc,                 \* updateApiKey: "idle", "test", "save" or "done"
    newApiKey,           \* the argument of the call
    validated,           \* the test call of this call was answered
    returnedKey,         \* what updateApiKey returned
    before,              \* keyFields and persisted when the call was made
    keyFields,           \* currentApiKey, genAI, flashModel and proModel of the copy
    persisted,           \* the key in localStorage or in the analytics table
    \* one call of GeminiService.speechToSign (services/aiService.ts)
    spc,                 \* speechToSign: "idle", "init", "request" or "done"
    speechText,          \* the argument of the call
    speechOwnsInit,      \* the call runs performInitialization itself
    speechAwaited,       \* the settled state of the awaited initPromise
    gestureText,         \* response.text() of the answer
    speechResult         \* what speechToSign returned

envVars == <<apiKeyEnv, supabaseConfigured, remote>>
dsVars == <<dataset, isLoaded>>
modelVars == <<genAI, flashModel, proModel, currentApiKey, clients>>
gemVars == <<modelVars, isInitializing, initPromise, ctorPc>>
aiVars == <<rpc, caller, image, mockFeatures, datasetResult, ownsInit, awaited,
            geminiInvoked, requests, external, geminiRaw, geminiResult, result>>
camVars == <<cpc, isCameraReady, isCapturing, translatedText, photo, camFeatures,
             alert, shownFrom, shownFor>>
simVars == <<simA, simB, simDone, simAB, simBA, simEntryAB, simEntryBA>>

matchVars == <<refSet, query, findCase, matchDone, similarities, matchBest, matchResult,
               found>>
svcVars == <<calls, upc, uploadRow>>

keyVars == <<keyCopy, kpc, newApiKey, validated, returnedKey, before, keyFields,
             persisted>>

speechVars == <<spc, speechText, speechOwnsInit, speechAwaited, gestureText,
                speechResult>>

vars == <<envVars, dsVars, gemVars, aiVars, camVars, simVars, matchVars, svcVars,
          keyVars, speechVars>>

---------------------------------------------------------------------------
(* Bounds of the model.                                                    *)

MaxVecLen == 2       \* longest vector handed to calculateSimilarity
MaxTextLen == 2      \* longest generated answer of the external call
MaxImageLen == 1     \* longest imageBase64 string
MaxRows == 1         \* most rows in the remote table
MaxClock == 1        \* new Date() reads a time in 0..MaxClock
RandomSteps == 2     \* Math.random() takes the values k / RandomSteps
MaxRefs == 2         \* most entries of a reference set handed to the matchers
MaxCallers == 2      \* callers of datasetService.recognizeSign at the same time
MaxStored == 2       \* most rows in the remote table after uploads

---------------------------------------------------------------------------
(* JavaScript numbers as exact fractions.                                  *)

Rat(n, d) == [num |-> n, den |-> d]
NaN == Rat(0, 0)
IsNaN(x) == x.den = 0
Zero == Rat(0, 1)
One == Rat(1, 1)

\* x < y, x > y, x <= y, x >= y, x === y: every comparison with NaN is false
NumLT(x, y) == ~IsNaN(x) /\ ~IsNaN(y) /\ x.num * y.den < y.num * x.den
NumGT(x, y) == NumLT(y, x)
NumEQ(x, y) == ~IsNaN(x) /\ ~IsNaN(y) /\ x.num * y.den = y.num * x.den
NumLE(x, y) == NumLT(x, y) \/ NumEQ(x, y)
NumGE(x, y) == NumLE(y, x)

\* Math.max(x, y): NaN when either argument is NaN
MathMax(x, y) == IF IsNaN(x) \/ IsNaN(y) THEN NaN ELSE IF NumLT(x, y) THEN y ELSE x

\* Math.abs on a component in hundredths
MathAbs(n) == IF n < 0 THEN -n ELSE n

\* sum / length, sum in hundredths: 0 / 0 is NaN
Mean(sum, length) == Rat(sum, 100 * length)

\* 1 - x
OneMinus(x) == IF IsNaN(x) THEN NaN ELSE Rat(x.den - x.num, x.den)

---------------------------------------------------------------------------
(* DatasetService.calculateSimilarity, both versions.                      *)

\* the loop "for i < features1.length: sum += Math.abs(features1[i] - features2[i])"
RECURSIVE SumAbsDiff(_, _, _)
SumAbsDiff(features1, features2, i) ==
    IF i > Len(features1) THEN 0
    ELSE MathAbs(features1[i] - features2[i]) + SumAbsDiff(features1, features2, i + 1)

\* the same loop with Math.abs left out
RECURSIVE SumSignedDiff(_, _, _)
SumSignedDiff(features1, features2, i) ==
    IF i > Len(features1) THEN 0
    ELSE (features1[i] - features2[i]) + SumSignedDiff(features1, features2, i + 1)

calculateSimilarityNoAbs(features1, features2) ==
    IF Len(features1) # Len(features2) THEN Zero
    ELSE MathMax(Zero, OneMinus(Mean(SumSignedDiff(features1, features2, 1), Len(features1))))

\* the loop run without the check of the lengths: a component that is not
\* there is undefined, and the sum NaN
calculateSimilarityNoLengthCheck(features1, features2) ==
    IF Len(features1) > Len(features2) THEN NaN
    ELSE MathMax(Zero, OneMinus(Mean(SumAbsDiff(features1, features2, 1), Len(features1))))

\* services/datasetService.ts
calculateSimilarity(features1, features2) ==
    IF Len(features1) # Len(features2) THEN Zero
    ELSE MathMax(Zero, OneMinus(Mean(SumAbsDiff(features1, features2, 1), Len(features1))))

\* unnamed/part_010: no Math.max(0, ...)
calculateSimilarityEntry(features1, features2) ==
    IF Len(features1) # Len(features2) THEN Zero
    ELSE OneMinus(Mean(SumAbsDiff(features1, features2, 1), Len(features1)))

---------------------------------------------------------------------------
(* Strings: sequences of one-character strings.                            *)

HELLO == <<"h", "e", "l", "l", "o">>
UNKNOWN == <<"u", "n", "k", "n", "o", "w", "n">>
NO == <<"n", "o">>
YES == <<"y", "e", "s">>
GESTURE == <<"g", "e", "s", "t", "u", "r", "e">>
THANK_YOU == <<"t", "h", "a", "n", "k", " ", "y", "o", "u">>
ANALYZING == <<"A", "n", "a", "l", "y", "z", "i", "n", "g", " ", "s", "i", "g", "n", ".", ".", ".">>

LowerLetters == {"a", "d", "e", "g", "h", "i", "k", "l", "n", "o", "p", "r", "s", "t", "u", "w", "y", "z"}
UpperLetters == {"A", "E", "K", "N", "O", "S", "U", "W", "Y"}
Digits == {"0", "1"}

\* String.prototype.toLowerCase on one character
ToLowerChar(c) ==
    CASE c = "A" -> "a" [] c = "E" -> "e" [] c = "K" -> "k" [] c = "N" -> "n"
      [] c = "O" -> "o" [] c = "S" -> "s" [] c = "U" -> "u" [] c = "W" -> "w"
      [] c = "Y" -> "y" [] OTHER -> c

\* the regular-expression classes \w and \s
IsWordChar(c) == c \in LowerLetters \cup UpperLetters \cup Digits \cup {"_"}
IsSpaceChar(c) == c \in {" ", "\n", "\t"}

ToLowerCase(s) == [i \in 1..Len(s) |-> ToLowerChar(s[i])]

RECURSIVE TrimStart(_)
TrimStart(s) == IF s # <<>> /\ IsSpaceChar(Head(s)) THEN TrimStart(Tail(s)) ELSE s

RECURSIVE TrimEnd(_)
TrimEnd(s) ==
    IF s # <<>> /\ IsSpaceChar(s[Len(s)]) THEN TrimEnd(SubSeq(s, 1, Len(s) - 1)) ELSE s

\* String.prototype.trim
Trim(s) == TrimEnd(TrimStart(s))

\* text.replace(/[^\w\s]/g, '')
KeepsChar(c) == IsWordChar(c) \/ IsSpaceChar(c)
ReplaceNonWord(s) == SelectSeq(s, KeepsChar)

\* GeminiService.recognizeSign: the text of the result made from the answer raw
CleanText(raw) == Trim(ReplaceNonWord(ToLowerCase(Trim(raw))))
FinalTextNoDefault(raw) == CleanText(raw)
FinalText(raw) == IF CleanText(raw) = <<>> THEN HELLO ELSE CleanText(raw)

\* the deny-listed labels of the camera screen
Sentinels == {UNKNOWN, NO}

---------------------------------------------------------------------------
(* Reference entries, and the rows of the remote table 'datasets'.         *)

Entry(id, label, features, confidence) ==
    [id |-> id, label |-> label, features |-> features, confidence |-> confidence]

\* services/datasetService.ts: DatasetService.getBuiltInDataset
getBuiltInDataset ==
    << Entry(<<"hello_1">>, HELLO, <<80, 90, 70, 85, 92>>, 95),
       Entry(<<"thank_you_1">>, THANK_YOU, <<70, 80, 90, 75, 88>>, 92),
       Entry(<<"please_1">>, <<"p", "l", "e", "a", "s", "e">>, <<85, 70, 80, 90, 82>>, 89),
       Entry(<<"yes_1">>, YES, <<90, 85, 70, 80, 95>>, 94),
       Entry(<<"no_1">>, NO, <<60, 90, 80, 70, 85>>, 91),
       Entry(<<"sorry_1">>, <<"s", "o", "r", "r", "y">>, <<75, 80, 85, 90, 78>>, 87),
       Entry(<<"help_1">>, <<"h", "e", "l", "p">>, <<80, 75, 90, 85, 88>>, 90),
       Entry(<<"good_1">>, <<"g", "o", "o", "d">>, <<90, 80, 75, 95, 85>>, 93),
       Entry(<<"bad_1">>, <<"b", "a", "d">>, <<70, 85, 80, 75, 90>>, 88),
       Entry(<<"water_1">>, <<"w", "a", "t", "e", "r">>, <<85, 90, 70, 80, 92>>, 89) >>

\* unnamed/part_010: DatasetService.localDataset
localDataset ==
    << Entry(<<"hello_1">>, HELLO, <<80, 90, 70, 85, 92>>, 95),
       Entry(<<"thank_you_1">>, THANK_YOU, <<70, 80, 90, 75, 88>>, 93),
       Entry(<<"please_1">>, <<"p", "l", "e", "a", "s", "e">>, <<90, 70, 80, 82, 91>>, 94),
       Entry(<<"yes_1">>, YES, <<85, 92, 78, 89, 86>>, 96),
       Entry(<<"no_1">>, NO, <<76, 84, 91, 73, 87>>, 92) >>

\* An item of a row's metadata.data.  A missing or empty label is <<>>, a
\* missing features array is <<>>, a missing confidence is 0: the source
\* reads each with "||", which treats the missing and the falsy value alike.
Item(id, label, features, confidence) ==
    [id |-> id, label |-> label, features |-> features, confidence |-> confidence]

\* A row of 'datasets'.  hasData: metadata.data is there (data is the array).
\* label, features, confidence: the columns the unnamed/part_010 version
\* reads; hasFeatures: the features column holds an array.
Row(dataset_id, hasData, data, label, hasFeatures, features, confidence) ==
    [dataset_id |-> dataset_id, hasData |-> hasData, data |-> data, label |-> label,
     hasFeatures |-> hasFeatures, features |-> features, confidence |-> confidence]

\* label || 'unknown',  confidence || 0.8,  confidence || 0.85
OrUnknown(label) == IF label = <<>> THEN UNKNOWN ELSE label
OrDefault(confidence, default) == IF confidence = 0 THEN default ELSE confidence

\* services/datasetService.ts: the inner forEach of processSupabaseDatasets
RECURSIVE ProcessItems(_, _, _)
ProcessItems(dataset_id, data, i) ==
    IF i > Len(data) THEN <<>>
    ELSE << Entry(<<dataset_id, data[i].id>>, OrUnknown(data[i].label),
                  data[i].features, OrDefault(data[i].confidence, 80)) >>
         \o ProcessItems(dataset_id, data, i + 1)

\* services/datasetService.ts: DatasetService.processSupabaseDatasets
RECURSIVE processSupabaseDatasets(_)
processSupabaseDatasets(datasets) ==
    IF datasets = <<>> THEN <<>>
    ELSE (IF Head(datasets).hasData
          THEN ProcessItems(Head(datasets).dataset_id, Head(datasets).data, 1)
          ELSE <<>>)
         \o processSupabaseDatasets(Tail(datasets))

\* services/datasetService.ts: "if (this.isLoaded) return"
loadDatasetAlwaysQueries(loaded) == FALSE
loadDatasetReturnsAtOnce(loaded) == loaded

\* the held set filled entry by entry, and seen after the first one
LoadedEntryByEntry(ok, datasets) ==
    IF ok /\ Len(datasets) > 0
    THEN SubSeq(processSupabaseDatasets(datasets), 1, 1)
    ELSE getBuiltInDataset
\* services/datasetService.ts: what loadDataset stores after the remote
\* query; ok is FALSE when the query gave no data or threw
LoadedReplacingBuiltIn(ok, datasets) ==
    IF ok /\ Len(datasets) > 0 THEN processSupabaseDatasets(datasets) ELSE getBuiltInDataset

\* unnamed/part_010: the entries loadDataset makes of the rows
SupabaseEntries(data) ==
    [i \in 1..Len(data) |->
        Entry(<<data[i].dataset_id>>, OrUnknown(data[i].label),
              IF data[i].hasFeatures THEN data[i].features ELSE <<50, 60, 70, 80, 90>>,
              OrDefault(data[i].confidence, 85))]

\* unnamed/part_010: DatasetService.loadDataset; ok is FALSE when Supabase is
\* not configured, the query reported an error, or it threw
loadDatasetEntries(ok, data) ==
    IF ok THEN localDataset \o SupabaseEntries(data) ELSE localDataset

---------------------------------------------------------------------------
(* The matchers.                                                           *)

TimesWeightLeftOut(similarity, confidence) == similarity
\* similarity * confidence, the weight in hundredths
TimesWeight(similarity, confidence) ==
    Rat(similarity.num * confidence, similarity.den * 100)

Threshold06AsNone == Rat(-1, 1)
Threshold06 == Rat(6, 10)
Threshold075 == Rat(75, 100)
Threshold08 == Rat(8, 10)

\* services/datasetService.ts: the for loop of recognizeSign, from index i
\* with the best entry and similarity so far
RECURSIVE BestScan(_, _, _, _, _)
BestScan(entries, imageFeatures, i, bestMatch, bestSimilarity) ==
    IF i > Len(entries) THEN [bestMatch |-> bestMatch, bestSimilarity |-> bestSimilarity]
    ELSE LET similarity == calculateSimilarity(imageFeatures, entries[i].features)
         IN IF NumGT(similarity, bestSimilarity)
            THEN BestScan(entries, imageFeatures, i + 1, entries[i], similarity)
            ELSE BestScan(entries, imageFeatures, i + 1, bestMatch, bestSimilarity)

\* without the check of the length, bestMatch is undefined for an empty
\* dataset and reading bestMatch.confidence throws
recognizeSignOverUnchecked(entries, imageFeatures) ==
    IF Len(entries) = 0 THEN [thrown |-> "TypeError"]
    ELSE LET best == BestScan(entries, imageFeatures, 1, entries[1], Zero)
             finalConfidence == TimesWeight(best.bestSimilarity, best.bestMatch.confidence)
         IN [label |-> IF NumGT(finalConfidence, Threshold06)
                       THEN best.bestMatch.label ELSE UNKNOWN,
             confidence |-> finalConfidence]

\* services/datasetService.ts: DatasetService.recognizeSign after loadDataset
recognizeSignOver(entries, imageFeatures) ==
    IF Len(entries) = 0 THEN [label |-> UNKNOWN, confidence |-> Rat(0, 1)]
    ELSE LET best == BestScan(entries, imageFeatures, 1, entries[1], Zero)
             finalConfidence == TimesWeight(best.bestSimilarity, best.bestMatch.confidence)
         IN [label |-> IF NumGT(finalConfidence, Threshold06)
                       THEN best.bestMatch.label ELSE UNKNOWN,
             confidence |-> finalConfidence]

None == [some |-> FALSE]
Some(v) == [some |-> TRUE, v |-> v]

\* the last entry above 0.8 instead of the first
RECURSIVE LastAbove(_, _, _)
LastAbove(entries, features, i) ==
    IF i > Len(entries) THEN None
    ELSE LET later == LastAbove(entries, features, i + 1)
         IN IF later.some THEN later
            ELSE IF NumGT(calculateSimilarityEntry(features, entries[i].features),
                          Threshold08)
                 THEN Some(entries[i]) ELSE None
\* unnamed/part_010: the for loop of findSignInDataset, from index i
RECURSIVE FirstAbove(_, _, _)
FirstAbove(entries, features, i) ==
    IF i > Len(entries) THEN None
    ELSE IF NumGT(calculateSimilarityEntry(features, entries[i].features), Threshold08)
         THEN Some(entries[i])
         ELSE FirstAbove(entries, features, i + 1)

\* a call of findSignInDataset: the remote rows were loaded; or the query
\* of loadDataset reported an error or threw; or the argument is undefined
FindCases == {"loaded", "load_failed", "no_features"}

\* unnamed/part_010: the entries loadDataset returns to findSignInDataset
LoadedForFind(case, entries) ==
    IF case = "load_failed" THEN localDataset ELSE localDataset \o entries

\* unnamed/part_010: findSignInDataset; "features1.length" of an undefined
\* argument throws in calculateSimilarity, and the catch returns null
findSignInDataset(case, entries, features) ==
    IF case = "no_features" THEN None
    ELSE FirstAbove(LoadedForFind(case, entries), features, 1)

---------------------------------------------------------------------------
(* Inputs: images, remote rows, answers of the external call.              *)

RECURSIVE SeqsUpTo(_, _)
SeqsUpTo(S, n) ==
    IF n = 0 THEN {<<>>}
    ELSE LET shorter == SeqsUpTo(S, n - 1)
         IN shorter \cup {Append(s, c) : s \in {t \in shorter : Len(t) = n - 1}, c \in S}

\* unnamed/part_010: AIService.simpleHash over the char codes of str.  The
\* images of the model are short: 31 * hash + char stays far below 2^31, where
\* "hash & hash" and Math.abs change nothing.
RECURSIVE HashFrom(_, _, _)
HashFrom(str, i, hash) ==
    IF i > Len(str) \/ i > 100 THEN hash
    ELSE HashFrom(str, i + 1, ((hash * 32) - hash) + str[i])

simpleHash(str) == MathAbs(HashFrom(str, 1, 0))

\* unnamed/part_010: AIService.extractImageFeatures, in hundredths
extractImageFeatures(imageBase64) ==
    [i \in 1..5 |-> (simpleHash(imageBase64) + (i - 1) * 17) % 100]

\* char codes of 'A' and 'B'
ImageChars == {65, 66}
Images == {None} \cup {Some(str) : str \in SeqsUpTo(ImageChars, MaxImageLen)}

\* the features extractImageFeatures gives the image "A"
FeaturesOfA == extractImageFeatures(<<65>>)

RowOfItems(dataset_id, data) == Row(dataset_id, TRUE, data, <<>>, FALSE, <<>>, 0)

RowSamples ==
    { \* an uploaded dataset whose item is labelled "no" and matches image "A"
      RowOfItems("d_no", <<Item("i1", NO, FeaturesOfA, 95)>>),
      \* an item without label and confidence, and one whose combined
      \* confidence with image "A" is exactly 0.75
      RowOfItems("d_unlabelled", <<Item("i1", <<>>, FeaturesOfA, 0)>>),
      RowOfItems("d_edge", <<Item("i1", HELLO, FeaturesOfA, 75),
                             Item("i2", YES, <<>>, 90)>>),
      \* a row without metadata.data, holding the columns of an entry
      Row("d_entry", FALSE, <<>>, <<>>, FALSE, <<>>, 0) }

RemoteStores == SeqsUpTo(RowSamples, MaxRows)

\* answers of the external call: every short text over TextChars, and samples
TextChars == {"n", "O", "!"}
TextSamples ==
    { <<"U", "N", "K", "N", "O", "W", "N", "!", "!">>,
      <<"N", "o", ".">>,
      <<" ", "Y", "e", "s", "!", "\n">>,
      <<" ">>,
      HELLO,
      THANK_YOU }
GeminiTexts == SeqsUpTo(TextChars, MaxTextLen) \cup TextSamples

\* the callers of datasetService.recognizeSign
Callers == 1..MaxCallers

\* new Date(), read where a result is made
Timestamps == 0..MaxClock

\* Math.random(), as the numerator k of k / RandomSteps
Randoms == 0..(RandomSteps - 1)

---------------------------------------------------------------------------
(* GeminiService (services/aiService.ts).                                  *)

Pending == [state |-> "pending"]
Resolved(v) == [state |-> "resolved", value |-> v]
Rejected == [state |-> "rejected"]

Recognition(text, confidence, gestures, timestamp) ==
    [text |-> text, confidence |-> confidence, gestures |-> gestures,
     timestamp |-> timestamp]

\* the client and the models built anew whether or not the key is the
\* current one
performInitializationAlwaysCreates(apiKey, models) ==
    IF ~apiKey.some THEN [models |-> models, settled |-> "rejected"]
    ELSE [models |-> <<apiKey, apiKey, apiKey, apiKey, models[5] + 1>>,
          settled |-> "fulfilled"]
\* performInitialization: the fields it leaves and the state of its promise
performInitialization(apiKey, models) ==
    IF ~apiKey.some THEN [models |-> models, settled |-> "rejected"]
    ELSE IF apiKey # models[4]
         THEN [models |-> <<apiKey, apiKey, apiKey, apiKey, models[5] + 1>>,
               settled |-> "fulfilled"]
         ELSE [models |-> models, settled |-> "fulfilled"]

SuccessConfidenceTenfold(k) == Rat(94 * RandomSteps + 50 * k, 100 * RandomSteps)
\* 0.94 + Math.random() * 0.05
SuccessConfidence(k) == Rat(94 * RandomSteps + 5 * k, 100 * RandomSteps)

\* an answer without a word in it handled as the catch block handles an error
GeminiSuccessDegradedOnEmpty(raw, k, t) ==
    IF CleanText(raw) = <<>>
    THEN Resolved(Recognition(HELLO, Rat(88, 100), <<HELLO>>, t))
    ELSE Resolved(Recognition(FinalText(raw), SuccessConfidence(k), <<FinalText(raw)>>, t))
\* recognizeSign, the return of the try block
GeminiSuccess(raw, k, t) ==
    Resolved(Recognition(FinalText(raw), SuccessConfidence(k), <<FinalText(raw)>>, t))

GeminiCatchAsSuccess(t) == Resolved(Recognition(HELLO, Rat(94, 100), <<HELLO>>, t))
\* recognizeSign, the catch block
GeminiCatch(t) == Resolved(Recognition(HELLO, Rat(88, 100), <<HELLO>>, t))

\* recognizeSign after a failed request: where it goes on, and with what
OnRequestFailureRetry(t) == [pc |-> "request", geminiResult |-> Pending]
OnRequestFailure(t) == [pc |-> "gemret", geminiResult |-> GeminiCatch(t)]

---------------------------------------------------------------------------
(* AIService.recognizeSign (unnamed/part_010).                             *)

LocalAcceptedAtThreshold(r) == NumGE(r.confidence, Threshold075)
\* datasetResult.confidence > 0.75
LocalAccepted(r) == NumGT(r.confidence, Threshold075)

\* the return of the local branch
LocalResult(r, t) == Resolved(Recognition(r.label, r.confidence, <<r.label>>, t))

\* the return after the fallback
FallbackResult(g) ==
    Resolved(Recognition(g.text, MathMax(g.confidence, Threshold08), g.gestures,
                         g.timestamp))

recognizeSignCatchRethrows(t) == Rejected
recognizeSignCatchHalved(t) ==
    Resolved(Recognition(GESTURE, Rat(375, 1000), <<GESTURE>>, t))
recognizeSignCatchAsDegraded(t) ==
    Resolved(Recognition(HELLO, Rat(75, 100), <<HELLO>>, t))
\* the catch block
recognizeSignCatch(t) ==
    Resolved(Recognition(GESTURE, Rat(75, 100), <<GESTURE>>, t))

\* a query of the remote table gives its rows (TRUE), or no data or an
\* exception (FALSE); it gives rows only when Supabase is configured
QueryOutcomes == IF supabaseConfigured THEN BOOLEAN ELSE {FALSE}

\* The call up to its first await: extractImageFeatures throws on an
\* undefined imageBase64; otherwise datasetService.recognizeSign is entered,
\* whose loadDataset returns at once when isLoaded and queries the remote
\* table when not.
StartRecognizeSign(imageBase64, from) ==
    /\ caller' = from
    /\ image' = imageBase64
    /\ datasetResult' = None
    /\ ownsInit' = FALSE
    /\ awaited' = "none"
    /\ geminiInvoked' = FALSE
    /\ requests' = 0
    /\ external' = "none"
    /\ geminiRaw' = None
    /\ geminiResult' = Pending
    /\ IF ~imageBase64.some
       THEN /\ mockFeatures' = <<>>
            /\ \E t \in Timestamps : result' = recognizeSignCatch(t)
            /\ rpc' = "done"
       ELSE /\ mockFeatures' = extractImageFeatures(imageBase64.v)
            /\ result' = Pending
            /\ rpc' = IF isLoaded THEN "match" ELSE "load"

\* a caller other than the camera screen calls aiService.recognizeSign
CallRecognizeSign ==
    /\ rpc = "idle"
    /\ cpc = "idle"
    /\ \E imageBase64 \in Images : StartRecognizeSign(imageBase64, "direct")
    /\ UNCHANGED <<envVars, dsVars, gemVars, camVars, simVars, matchVars, keyVars, speechVars, svcVars>>

\* services/datasetService.ts: loadDataset after the remote query
LoadDatasetResponds ==
    /\ rpc = "load"
    /\ \E ok \in QueryOutcomes : dataset' = LoadedReplacingBuiltIn(ok, remote)
    /\ isLoaded' = TRUE
    /\ rpc' = "match"
    /\ UNCHANGED <<envVars, gemVars, camVars, simVars, matchVars, keyVars, speechVars, svcVars>>
    /\ UNCHANGED <<caller, image, mockFeatures, datasetResult, ownsInit, awaited,
                   geminiInvoked, requests, external, geminiRaw, geminiResult, result>>

\* services/datasetService.ts: recognizeSign after "await this.loadDataset()"
DatasetRecognizeSign ==
    /\ rpc = "match"
    /\ datasetResult' = Some(recognizeSignOver(dataset, mockFeatures))
    /\ rpc' = "decide"
    /\ UNCHANGED <<envVars, dsVars, gemVars, camVars, simVars, matchVars, keyVars, speechVars, svcVars>>
    /\ UNCHANGED <<caller, image, mockFeatures, ownsInit, awaited,
                   geminiInvoked, requests, external, geminiRaw, geminiResult, result>>

\* AIService.recognizeSign after "await datasetService.recognizeSign": the
\* local return, or the call of geminiService.recognizeSign up to its
\* "await this.initializeGemini()"
AfterDatasetResult ==
    /\ rpc = "decide"
    /\ IF LocalAccepted(datasetResult.v)
       THEN /\ \E t \in Timestamps : result' = LocalResult(datasetResult.v, t)
            /\ rpc' = "done"
            /\ UNCHANGED <<gemVars, ownsInit, awaited, geminiInvoked>>
       ELSE /\ geminiInvoked' = TRUE
            /\ rpc' = "init"
            /\ result' = result
            /\ IF isInitializing /\ initPromise.some
               THEN /\ ownsInit' = FALSE
                    /\ awaited' = initPromise.v
                    /\ UNCHANGED gemVars
               ELSE LET init == performInitialization(apiKeyEnv, modelVars)
                    IN /\ ownsInit' = TRUE
                       /\ awaited' = init.settled
                       /\ isInitializing' = TRUE
                       /\ initPromise' = Some(init.settled)
                       /\ genAI' = init.models[1]
                       /\ flashModel' = init.models[2]
                       /\ proModel' = init.models[3]
                       /\ currentApiKey' = init.models[4]
                       /\ clients' = init.models[5]
                       /\ UNCHANGED ctorPc
    /\ UNCHANGED <<envVars, dsVars, camVars, simVars, matchVars, keyVars, speechVars, svcVars>>
    /\ UNCHANGED <<caller, image, mockFeatures, datasetResult, requests, external,
                   geminiRaw, geminiResult>>

\* the constructor's initializeGemini() after "await this.initPromise"
ConstructorInitDone ==
    /\ ctorPc = "await"
    /\ ctorPc' = "done"
    /\ isInitializing' = FALSE
    /\ UNCHANGED <<envVars, dsVars, modelVars, initPromise, aiVars, camVars, simVars, matchVars, keyVars, speechVars, svcVars>>

\* geminiService.recognizeSign after "await this.initializeGemini()": the
\* finally of initializeGemini, the check of flashModel, the request
AfterInitializeGemini ==
    /\ rpc = "init"
    /\ isInitializing' = IF ownsInit THEN FALSE ELSE isInitializing
    /\ IF awaited = "rejected" \/ ~flashModel.some
       THEN /\ \E t \in Timestamps : geminiResult' = GeminiCatch(t)
            /\ external' = "init_failed"
            /\ rpc' = "gemret"
            /\ UNCHANGED requests
       ELSE /\ requests' = requests + 1
            /\ rpc' = "request"
            /\ UNCHANGED <<geminiResult, external>>
    /\ UNCHANGED <<envVars, dsVars, modelVars, initPromise, ctorPc, camVars, simVars, matchVars, keyVars, speechVars, svcVars>>
    /\ UNCHANGED <<caller, image, mockFeatures, datasetResult, ownsInit, awaited,
                   geminiInvoked, geminiRaw, result>>

\* the request is answered with a text
GenerateContentAnswers ==
    /\ rpc = "request"
    /\ \E raw \in GeminiTexts, k \in Randoms, t \in Timestamps :
          /\ geminiRaw' = Some(raw)
          /\ geminiResult' = GeminiSuccess(raw, k, t)
    /\ external' = "answered"
    /\ rpc' = "gemret"
    /\ UNCHANGED <<envVars, dsVars, gemVars, camVars, simVars, matchVars, keyVars, speechVars, svcVars>>
    /\ UNCHANGED <<caller, image, mockFeatures, datasetResult, ownsInit, awaited,
                   geminiInvoked, requests, result>>

\* the request rejects, or response.text() throws
GenerateContentFails ==
    /\ rpc = "request"
    /\ \E how \in {"rejected", "text_threw"} : external' = how
    /\ \E t \in Timestamps :
          LET next == OnRequestFailure(t)
          IN /\ rpc' = next.pc
             /\ geminiResult' = next.geminiResult
             /\ requests' = IF next.pc = "request" THEN requests + 1 ELSE requests
    /\ UNCHANGED <<envVars, dsVars, gemVars, camVars, simVars, matchVars, keyVars, speechVars, svcVars>>
    /\ UNCHANGED <<caller, image, mockFeatures, datasetResult, ownsInit, awaited,
                   geminiInvoked, geminiRaw, result>>

\* AIService.recognizeSign after "await geminiService.recognizeSign"
AfterGeminiResult ==
    /\ rpc = "gemret"
    /\ \E t \in Timestamps :
          result' = IF geminiResult.state = "resolved"
                    THEN FallbackResult(geminiResult.value)
                    ELSE recognizeSignCatch(t)
    /\ rpc' = "done"
    /\ UNCHANGED <<envVars, dsVars, gemVars, camVars, simVars, matchVars, keyVars, speechVars, svcVars>>
    /\ UNCHANGED <<caller, image, mockFeatures, datasetResult, ownsInit, awaited,
                   geminiInvoked, requests, external, geminiRaw, geminiResult>>

\* the locals of a call are gone when it has returned
ForgetCall ==
    /\ rpc' = "idle"
    /\ caller' = "direct"
    /\ image' = None
    /\ mockFeatures' = <<>>
    /\ datasetResult' = None
    /\ ownsInit' = FALSE
    /\ awaited' = "none"
    /\ geminiInvoked' = FALSE
    /\ requests' = 0
    /\ external' = "none"
    /\ geminiRaw' = None
    /\ geminiResult' = Pending
    /\ result' = Pending

\* the direct caller has its result; the locals of the call are gone
ReturnToCaller ==
    /\ rpc = "done"
    /\ caller = "direct"
    /\ ForgetCall
    /\ UNCHANGED <<envVars, dsVars, gemVars, camVars, simVars, matchVars, keyVars, speechVars, svcVars>>

---------------------------------------------------------------------------
(* The camera screen (app/(tabs)/index.tsx): startCapture.                 *)

\* Array.from({ length: 5 }, () => Math.random()), in hundredths
QuerySamples ==
    { <<99, 99, 99, 39, 77>>,     \* nearest to no_1 and to no entry before it
      <<80, 90, 70, 85, 92>>,     \* hello_1 itself
      <<30, 40, 60, 80, 99>>,     \* near the features given to a row without any
      <<0, 0, 0, 0, 0>> }

\* lines 124-127: the text shown for result.text
ShownText(text) ==
    IF text = <<>> \/ text = UNKNOWN \/ text = NO \/ Len(Trim(text)) = 0
    THEN HELLO ELSE text

CameraReady ==
    /\ ~isCameraReady
    /\ isCameraReady' = TRUE
    /\ UNCHANGED <<envVars, dsVars, gemVars, aiVars, simVars, matchVars, keyVars, speechVars, svcVars>>
    /\ UNCHANGED <<cpc, isCapturing, translatedText, photo, camFeatures, alert,
                   shownFrom, shownFor>>

\* startCapture before the camera is ready: the alert, and nothing else
StartCaptureNotReady ==
    /\ cpc = "idle"
    /\ ~isCameraReady
    /\ alert' = "not_ready"
    /\ UNCHANGED <<envVars, dsVars, gemVars, aiVars, simVars, matchVars, keyVars, speechVars, svcVars>>
    /\ UNCHANGED <<cpc, isCameraReady, isCapturing, translatedText, photo, camFeatures,
                   shownFrom, shownFor>>

\* startCapture up to "await cameraRef.current.takePictureAsync"
StartCapture ==
    /\ cpc = "idle"
    /\ rpc = "idle"
    /\ isCameraReady
    /\ ~isCapturing
    /\ isCapturing' = TRUE
    /\ translatedText' = <<>>
    /\ shownFrom' = "start"
    /\ shownFor' = None
    /\ alert' = "none"
    /\ cpc' = "photo"
    /\ UNCHANGED <<envVars, dsVars, gemVars, aiVars, simVars, matchVars, keyVars, speechVars, svcVars>>
    /\ UNCHANGED <<isCameraReady, photo, camFeatures>>

\* the catch block without the finally block
CaptureFailedNoFinally ==
    /\ alert' = "error"
    /\ translatedText' = HELLO
    /\ shownFrom' = "catch"
    /\ shownFor' = None
    /\ isCapturing' = isCapturing
    /\ photo' = None
    /\ camFeatures' = <<>>
    /\ cpc' = "idle"
\* the catch block and the finally block of startCapture
CaptureFailed ==
    /\ alert' = "error"
    /\ translatedText' = HELLO
    /\ shownFrom' = "catch"
    /\ shownFor' = None
    /\ isCapturing' = FALSE
    /\ photo' = None
    /\ camFeatures' = <<>>
    /\ cpc' = "idle"

TakePictureFails ==
    /\ cpc = "photo"
    /\ CaptureFailed
    /\ UNCHANGED <<envVars, dsVars, gemVars, aiVars, simVars, matchVars, keyVars, speechVars, svcVars>>
    /\ UNCHANGED isCameraReady

\* the photo is there; findSignInDataset is called and awaits loadDataset
TakePictureResolves ==
    /\ cpc = "photo"
    /\ photo' \in Images
    /\ camFeatures' \in QuerySamples
    /\ cpc' = "find"
    /\ UNCHANGED <<envVars, dsVars, gemVars, aiVars, simVars, matchVars, keyVars, speechVars, svcVars>>
    /\ UNCHANGED <<isCameraReady, isCapturing, translatedText, alert, shownFrom, shownFor>>

\* findSignInDataset returns: the label of the match is shown and startCapture
\* returns; or there is no image data; or aiService.recognizeSign is called
AfterFindSignInDataset ==
    /\ cpc = "find"
    /\ \E ok \in QueryOutcomes :
          LET datasetMatch == FirstAbove(loadDatasetEntries(ok, remote), camFeatures, 1)
          IN IF datasetMatch.some
             THEN /\ translatedText' = datasetMatch.v.label
                  /\ shownFrom' = "dataset"
                  /\ isCapturing' = FALSE
                  /\ photo' = None
                  /\ camFeatures' = <<>>
                  /\ cpc' = "idle"
                  /\ UNCHANGED <<alert, shownFor, aiVars>>
             ELSE IF ~photo.some \/ photo.v = <<>>
                  THEN CaptureFailed /\ UNCHANGED aiVars
                  ELSE /\ translatedText' = ANALYZING
                       /\ shownFrom' = "analyzing"
                       /\ cpc' = "ai"
                       /\ StartRecognizeSign(photo, "camera")
                       /\ UNCHANGED <<alert, shownFor, isCapturing, photo, camFeatures>>
    /\ UNCHANGED <<envVars, dsVars, gemVars, simVars, matchVars, keyVars, speechVars, svcVars>>
    /\ UNCHANGED isCameraReady

\* startCapture after "await aiService.recognizeSign(photo.base64)"
AfterRecognizeSign ==
    /\ cpc = "ai"
    /\ rpc = "done"
    /\ caller = "camera"
    /\ ForgetCall
    /\ IF result.state = "resolved"
       THEN /\ translatedText' = ShownText(result.value.text)
            /\ shownFrom' = "ai"
            /\ shownFor' = Some(result.value.text)
            /\ isCapturing' = FALSE
            /\ photo' = None
            /\ camFeatures' = <<>>
            /\ cpc' = "idle"
            /\ UNCHANGED alert
       ELSE CaptureFailed
    /\ UNCHANGED <<envVars, dsVars, gemVars, simVars, matchVars, keyVars, speechVars, svcVars>>
    /\ UNCHANGED isCameraReady

---------------------------------------------------------------------------
(* The pipeline and the camera screen together.                            *)

NoModels == <<None, None, None, None, 0>>

InitSimIdle ==
    /\ simA = <<>>
    /\ simB = <<>>
    /\ simDone = FALSE
    /\ simAB = Zero
    /\ simBA = Zero
    /\ simEntryAB = Zero
    /\ simEntryBA = Zero

InitMatchIdle ==
    /\ refSet = <<>>
    /\ query = <<>>
    /\ findCase = "loaded"
    /\ matchDone = FALSE
    /\ similarities = <<>>
    /\ matchBest = None
    /\ matchResult = None
    /\ found = None

\* a caller of datasetService.recognizeSign that is not calling
IdleCall == [pc |-> "idle", imageFeatures |-> <<>>, stored |-> 0,
             scanned |-> None, returned |-> None]

InitSvcIdle ==
    /\ calls = [c \in Callers |-> IdleCall]
    /\ upc = "idle"
    /\ uploadRow = None

\* the fields of a GeminiService that has built nothing
NoKeyFields == [currentApiKey |-> None, genAI |-> None, flashModel |-> None,
                proModel |-> None]

\* no call of updateApiKey
InitKeyIdle ==
    /\ keyCopy = "mobile"
    /\ kpc = "idle"
    /\ newApiKey = None
    /\ validated = FALSE
    /\ returnedKey = None
    /\ before = None
    /\ keyFields = NoKeyFields
    /\ persisted = None

\* no call of speechToSign
InitSpeechIdle ==
    /\ spc = "idle"
    /\ speechText = <<>>
    /\ speechOwnsInit = FALSE
    /\ speechAwaited = "fulfilled"
    /\ gestureText = None
    /\ speechResult = None

InitCallIdle ==
    /\ rpc = "idle"
    /\ caller = "direct"
    /\ image = None
    /\ mockFeatures = <<>>
    /\ datasetResult = None
    /\ ownsInit = FALSE
    /\ awaited = "none"
    /\ geminiInvoked = FALSE
    /\ requests = 0
    /\ external = "none"
    /\ geminiRaw = None
    /\ geminiResult = Pending
    /\ result = Pending

InitCameraIdle ==
    /\ cpc = "idle"
    /\ isCameraReady = FALSE
    /\ isCapturing = FALSE
    /\ translatedText = <<>>
    /\ photo = None
    /\ camFeatures = <<>>
    /\ alert = "none"
    /\ shownFrom = "none"
    /\ shownFor = None

\* the services as constructed: "dataset = [], isLoaded = false", and the
\* GeminiService constructor has called initializeGemini(), which has run
\* performInitialization and waits at "await this.initPromise"
InitServices ==
    /\ dataset = <<>>
    /\ isLoaded = FALSE
    /\ LET init == performInitialization(apiKeyEnv, NoModels)
       IN /\ genAI = init.models[1]
          /\ flashModel = init.models[2]
          /\ proModel = init.models[3]
          /\ currentApiKey = init.models[4]
          /\ clients = init.models[5]
          /\ isInitializing = TRUE
          /\ initPromise = Some(init.settled)
          /\ ctorPc = "await"

Init ==
    /\ apiKeyEnv \in {None, Some("key")}
    /\ supabaseConfigured \in BOOLEAN
    \* without the remote store configured there are no remote rows
    /\ remote \in IF supabaseConfigured THEN RemoteStores ELSE {<<>>}
    /\ InitServices
    /\ InitCallIdle
    /\ InitCameraIdle
    /\ InitSimIdle
    /\ InitMatchIdle
    /\ InitSvcIdle
    /\ InitKeyIdle
    /\ InitSpeechIdle

\* the steps of a call of AIService.recognizeSign, whoever made it
PipelineStep ==
    \/ ConstructorInitDone
    \/ LoadDatasetResponds
    \/ DatasetRecognizeSign
    \/ AfterDatasetResult
    \/ AfterInitializeGemini
    \/ GenerateContentAnswers
    \/ GenerateContentFails
    \/ AfterGeminiResult

\* AIService.recognizeSign called with any imageBase64
Next ==
    \/ CallRecognizeSign
    \/ PipelineStep
    \/ ReturnToCaller

Spec == Init /\ [][Next]_vars

\* the camera screen calling it
NextCamera ==
    \/ CameraReady
    \/ StartCaptureNotReady
    \/ StartCapture
    \/ TakePictureFails
    \/ TakePictureResolves
    \/ AfterFindSignInDataset
    \/ PipelineStep
    \/ AfterRecognizeSign

SpecCamera == Init /\ [][NextCamera]_vars

\* every promise startCapture awaits settles: the photo, findSignInDataset,
\* and each await of recognizeSign
CameraFairness ==
    /\ WF_vars(TakePictureFails \/ TakePictureResolves)
    /\ WF_vars(AfterFindSignInDataset)
    /\ WF_vars(PipelineStep)
    /\ WF_vars(AfterRecognizeSign)

\* the camera screen over the built-in entries alone
InitCameraLive == Init /\ remote = <<>>

SpecCameraLive == InitCameraLive /\ [][NextCamera]_vars /\ CameraFairness

---------------------------------------------------------------------------
(* calculateSimilarity as a function of its two arguments.                 *)

\* components in hundredths; -50 and 150 lie outside [0,1]
Components == {-50, 0, 30, 100, 150}

Vectors == SeqsUpTo(Components, MaxVecLen)

InitSim ==
    /\ apiKeyEnv = None
    /\ supabaseConfigured = FALSE
    /\ remote = <<>>
    /\ InitServices
    /\ InitCallIdle
    /\ InitCameraIdle
    /\ InitMatchIdle
    /\ InitSvcIdle
    /\ InitKeyIdle
    /\ InitSpeechIdle
    /\ simA \in Vectors
    /\ simB \in Vectors
    /\ simDone = FALSE
    /\ simAB = Zero
    /\ simBA = Zero
    /\ simEntryAB = Zero
    /\ simEntryBA = Zero

ApplySimilarity ==
    /\ ~simDone
    /\ simDone' = TRUE
    /\ simAB' = calculateSimilarity(simA, simB)
    /\ simBA' = calculateSimilarity(simB, simA)
    /\ simEntryAB' = calculateSimilarityEntry(simA, simB)
    /\ simEntryBA' = calculateSimilarityEntry(simB, simA)
    /\ UNCHANGED <<simA, simB>>
    /\ UNCHANGED <<envVars, dsVars, gemVars, aiVars, camVars, matchVars, keyVars, speechVars, svcVars>>

NextSim == ApplySimilarity

SpecSim == InitSim /\ [][NextSim]_vars

---------------------------------------------------------------------------
(* The matchers applied to bounded reference sets and queries.             *)

\* the components of the short vectors, in hundredths
MatchComponents == {0, 50, 100}

\* the features of hello_1 and of yes_1 in unnamed/part_010
FeaturesOfHello == localDataset[1].features
FeaturesOfYes == localDataset[4].features

\* entries as processSupabaseDatasets makes them: a label that is not
\* empty, any features array, the empty one included, and a weight
EntryPool ==
    { getBuiltInDataset[1] } \cup
    { Entry(<<"e", f, w>>, IF Len(f) = 0 THEN YES ELSE IF f[1] = 50 THEN NO ELSE THANK_YOU,
            f, w) : f \in {<<>>, <<50>>, <<100>>, <<50, 100>>}, w \in {50, 95} }

ReferenceSets == SeqsUpTo(EntryPool, MaxRefs)

Queries == SeqsUpTo(MatchComponents, MaxVecLen) \cup {FeaturesOfHello, FeaturesOfYes}

\* services/datasetService.ts: the value of "similarity" in each turn of the loop
Similarities(entries, imageFeatures) ==
    [j \in 1..Len(entries) |-> calculateSimilarity(imageFeatures, entries[j].features)]

InitMatch ==
    /\ apiKeyEnv = None
    /\ supabaseConfigured = FALSE
    /\ remote = <<>>
    /\ InitServices
    /\ InitCallIdle
    /\ InitCameraIdle
    /\ InitSimIdle
    /\ InitSvcIdle
    /\ InitKeyIdle
    /\ InitSpeechIdle
    /\ refSet \in ReferenceSets
    /\ query \in Queries
    /\ findCase \in FindCases
    /\ matchDone = FALSE
    /\ similarities = <<>>
    /\ matchBest = None
    /\ matchResult = None
    /\ found = None

\* recognizeSign of services/datasetService.ts over the held reference set,
\* and findSignInDataset of unnamed/part_010 over its localDataset followed
\* by the same entries
ApplyMatchers ==
    /\ ~matchDone
    /\ matchDone' = TRUE
    /\ similarities' = Similarities(refSet, query)
    /\ matchBest' = IF Len(refSet) = 0 THEN None
                    ELSE Some(BestScan(refSet, query, 1, refSet[1], Zero))
    /\ matchResult' = Some(recognizeSignOver(refSet, query))
    /\ found' = findSignInDataset(findCase, refSet, query)
    /\ UNCHANGED <<refSet, query, findCase>>
    /\ UNCHANGED <<envVars, dsVars, gemVars, aiVars, camVars, simVars, svcVars,
                   keyVars, speechVars>>

NextMatch == ApplyMatchers

SpecMatch == InitMatch /\ [][NextMatch]_vars

---------------------------------------------------------------------------
(* DatasetService (services/datasetService.ts) with callers of             *)
(* recognizeSign and an uploadDataset running at the same time.            *)

\* the feature vectors the callers ask for
CallerQueries == {FeaturesOfA, FeaturesOfHello}

\* the rows the table holds at the start: d_edge with two items, or d_entry
\* without metadata.data
StoredRows == {r \in RowSamples : r.dataset_id \in {"d_edge", "d_entry"}}

\* the row uploadDataset inserts
UploadRows == {r \in RowSamples : r.dataset_id = "d_edge"}

InitDataset ==
    /\ apiKeyEnv = None
    /\ supabaseConfigured \in BOOLEAN
    /\ remote \in IF supabaseConfigured
                  THEN {<<>>} \cup {<<row>> : row \in StoredRows}
                  ELSE {<<>>}
    /\ InitServices
    /\ InitCallIdle
    /\ InitCameraIdle
    /\ InitSimIdle
    /\ InitMatchIdle
    /\ InitSvcIdle
    /\ InitKeyIdle
    /\ InitSpeechIdle

\* recognizeSign up to the await inside loadDataset, or, the set being
\* loaded, up to the end of "await this.loadDataset()"
DsCall(c) ==
    /\ calls[c].pc = "idle"
    /\ \A b \in Callers : b < c => calls[b].pc # "idle"
    /\ \E imageFeatures \in CallerQueries :
          calls' = [calls EXCEPT ![c] =
                       [pc |-> IF loadDatasetReturnsAtOnce(isLoaded) THEN "scan" ELSE "load",
                        imageFeatures |-> imageFeatures,
                        stored |-> 0,
                        scanned |-> None,
                        returned |-> None]]
    /\ UNCHANGED <<upc, uploadRow>>
    /\ UNCHANGED <<envVars, dsVars, gemVars, aiVars, camVars, simVars, matchVars, keyVars, speechVars>>

\* loadDataset of the call after the remote query
DsLoadResponds(c) ==
    /\ calls[c].pc = "load"
    /\ \E ok \in QueryOutcomes : dataset' = LoadedReplacingBuiltIn(ok, remote)
    /\ isLoaded' = TRUE
    /\ calls' = [calls EXCEPT ![c].pc = "scan"]
    /\ UNCHANGED <<upc, uploadRow>>
    /\ UNCHANGED <<envVars, gemVars, aiVars, camVars, simVars, matchVars, keyVars, speechVars>>

\* recognizeSign from the check of the length to its return
DsScan(c) ==
    /\ calls[c].pc = "scan"
    /\ calls' = [calls EXCEPT
                    ![c].pc = "done",
                    ![c].stored = Len(remote),
                    ![c].scanned = Some(dataset),
                    ![c].returned = Some(recognizeSignOver(dataset, calls[c].imageFeatures))]
    /\ UNCHANGED <<upc, uploadRow>>
    /\ UNCHANGED <<envVars, dsVars, gemVars, aiVars, camVars, simVars, matchVars, keyVars, speechVars>>

\* the caller has its result
DsReturn(c) ==
    /\ calls[c].pc = "done"
    /\ calls' = [calls EXCEPT ![c] = IdleCall]
    /\ UNCHANGED <<upc, uploadRow>>
    /\ UNCHANGED <<envVars, dsVars, gemVars, aiVars, camVars, simVars, matchVars, keyVars, speechVars>>

\* uploadDataset up to "await supabase.from('datasets').insert(...)"
UploadDataset ==
    /\ upc = "idle"
    /\ Len(remote) < MaxStored
    /\ \E row \in UploadRows : uploadRow' = Some(row)
    /\ upc' = "insert"
    /\ UNCHANGED calls
    /\ UNCHANGED <<envVars, dsVars, gemVars, aiVars, camVars, simVars, matchVars, keyVars, speechVars>>

\* the insert reports an error or throws: uploadDataset returns the failure
UploadInsertFails ==
    /\ upc = "insert"
    /\ upc' = "idle"
    /\ uploadRow' = None
    /\ UNCHANGED calls
    /\ UNCHANGED <<envVars, dsVars, gemVars, aiVars, camVars, simVars, matchVars, keyVars, speechVars>>

\* the row is stored: "this.isLoaded = false", and loadDataset up to its await
UploadInsertResponds ==
    /\ upc = "insert"
    /\ supabaseConfigured
    /\ remote' = Append(remote, uploadRow.v)
    /\ isLoaded' = FALSE
    /\ upc' = "load"
    /\ UNCHANGED <<calls, uploadRow, dataset>>
    /\ UNCHANGED <<apiKeyEnv, supabaseConfigured, gemVars, aiVars, camVars, simVars,
                   matchVars, keyVars, speechVars>>

\* loadDataset of uploadDataset after the remote query
UploadLoadResponds ==
    /\ upc = "load"
    /\ \E ok \in QueryOutcomes : dataset' = LoadedReplacingBuiltIn(ok, remote)
    /\ isLoaded' = TRUE
    /\ upc' = "idle"
    /\ uploadRow' = None
    /\ UNCHANGED calls
    /\ UNCHANGED <<envVars, gemVars, aiVars, camVars, simVars, matchVars, keyVars, speechVars>>

NextDataset ==
    \/ \E c \in Callers : DsCall(c)
    \/ \E c \in Callers : DsLoadResponds(c)
    \/ \E c \in Callers : DsScan(c)
    \/ \E c \in Callers : DsReturn(c)
    \/ UploadDataset
    \/ UploadInsertFails
    \/ UploadInsertResponds
    \/ UploadLoadResponds

SpecDataset == InitDataset /\ [][NextDataset]_vars

---------------------------------------------------------------------------
(* GeminiService.updateApiKey in its three copies: the admin dashboard     *)
(* (admin-dashboard/src/services/geminiService.ts), unnamed/part_011, and  *)
(* the third GeminiService of services/aiService.ts.                       *)

KeyCopies == {"admin", "part_011", "mobile"}

\* the keys handed to updateApiKey, and those the API accepts
NewKeys == {"k1", "k2", "revoked"}
ValidKeys == {"k1", "k2"}

\* the fields after the client and both models were built from the key; the
\* copy of services/aiService.ts has no field currentApiKey
BuiltFrom(copy, key) ==
    [currentApiKey |-> IF copy = "mobile" THEN None ELSE Some(key),
     genAI |-> Some(key), flashModel |-> Some(key), proModel |-> Some(key)]

\* the constructor's initializeGemini: the persisted key before the one of
\* the environment
InitKey ==
    /\ apiKeyEnv \in {None, Some("key")}
    /\ supabaseConfigured = FALSE
    /\ remote = <<>>
    /\ InitServices
    /\ InitCallIdle
    /\ InitCameraIdle
    /\ InitSimIdle
    /\ InitMatchIdle
    /\ InitSvcIdle
    /\ keyCopy \in KeyCopies
    /\ persisted \in {None, Some("k1")}
    /\ keyFields = IF persisted.some THEN BuiltFrom(keyCopy, persisted.v)
                   ELSE IF apiKeyEnv.some THEN BuiltFrom(keyCopy, apiKeyEnv.v)
                   ELSE NoKeyFields
    /\ kpc = "idle"
    /\ newApiKey = None
    /\ validated = FALSE
    /\ returnedKey = None
    /\ before = None
    /\ InitSpeechIdle

KeyRest == <<envVars, dsVars, gemVars, aiVars, camVars, simVars, matchVars, svcVars,
             speechVars>>

\* updateApiKey up to its first await: the test call, or, in the copy of
\* services/aiService.ts, the upsert
UpdateApiKey ==
    /\ kpc = "idle"
    /\ \E key \in NewKeys : newApiKey' = Some(key)
    /\ before' = Some([keyFields |-> keyFields, persisted |-> persisted])
    /\ validated' = FALSE
    /\ kpc' = IF keyCopy = "mobile" THEN "save" ELSE "test"
    /\ UNCHANGED <<keyCopy, returnedKey, keyFields, persisted>>
    /\ UNCHANGED KeyRest

\* testModel.generateContent is answered: the key is one the API accepts
TestCallAnswers ==
    /\ kpc = "test"
    /\ newApiKey.v \in ValidKeys
    /\ validated' = TRUE
    /\ IF keyCopy = "admin"
       THEN \* localStorage.setItem, the assignments, "return true"
            /\ persisted' = newApiKey
            /\ keyFields' = BuiltFrom(keyCopy, newApiKey.v)
            /\ returnedKey' = Some(TRUE)
            /\ kpc' = "done"
       ELSE \* up to "await supabase.from('analytics').upsert(...)"
            /\ kpc' = "save"
            /\ UNCHANGED <<persisted, keyFields, returnedKey>>
    /\ UNCHANGED <<keyCopy, newApiKey, before>>
    /\ UNCHANGED KeyRest

\* the test call throws (a key the API refuses, or no connection): the catch
TestCallFails ==
    /\ kpc = "test"
    /\ returnedKey' = Some(FALSE)
    /\ kpc' = "done"
    /\ UNCHANGED <<keyCopy, newApiKey, validated, before, keyFields, persisted>>
    /\ UNCHANGED KeyRest

\* the upsert resolves, with the row saved or with an error in its result,
\* which the code does not read: the assignments and "return true"
UpsertResolves ==
    /\ kpc = "save"
    /\ \E saved \in BOOLEAN : persisted' = IF saved THEN newApiKey ELSE persisted
    /\ keyFields' = BuiltFrom(keyCopy, newApiKey.v)
    /\ returnedKey' = Some(TRUE)
    /\ kpc' = "done"
    /\ UNCHANGED <<keyCopy, newApiKey, validated, before>>
    /\ UNCHANGED KeyRest

\* the upsert throws: the catch
UpsertThrows ==
    /\ kpc = "save"
    /\ returnedKey' = Some(FALSE)
    /\ kpc' = "done"
    /\ UNCHANGED <<keyCopy, newApiKey, validated, before, keyFields, persisted>>
    /\ UNCHANGED KeyRest

\* the caller has the boolean
UpdateApiKeyReturns ==
    /\ kpc = "done"
    /\ kpc' = "idle"
    /\ newApiKey' = None
    /\ validated' = FALSE
    /\ returnedKey' = None
    /\ before' = None
    /\ UNCHANGED <<keyCopy, keyFields, persisted>>
    /\ UNCHANGED KeyRest

NextKey ==
    \/ UpdateApiKey
    \/ TestCallAnswers
    \/ TestCallFails
    \/ UpsertResolves
    \/ UpsertThrows
    \/ UpdateApiKeyReturns

SpecKey == InitKey /\ [][NextKey]_vars

---------------------------------------------------------------------------
(* GeminiService.speechToSign (services/aiService.ts; unnamed/part_011 has *)
(* the same statements from the request on).                               *)

MaxGestureLen == 3   \* longest generated answer to the gesture prompt
KeyframeStep == 1500

PerformPrefix == <<"P", "e", "r", "f", "o", "r", "m", " ">>
SignSuffix == <<" ", "s", "i", "g", "n">>

\* the texts handed to speechToSign; chat.tsx calls it with ''
SpeechTexts == {<<>>, <<"N", "o">>, HELLO}

\* the answers to the gesture prompt
GestureChars == {"a", "N", ",", " "}
GestureTexts ==
    SeqsUpTo(GestureChars, MaxGestureLen)
        \cup {<<"n", "o", ",", " ", "Y", "e", "s">>, <<" ", ",", " ", ",">>}

\* String.prototype.split(','), from index i on, with the piece begun so far
RECURSIVE SplitComma(_, _, _)
SplitComma(s, i, piece) ==
    IF i > Len(s) THEN <<piece>>
    ELSE IF s[i] = "," THEN <<piece>> \o SplitComma(s, i + 1, <<>>)
    ELSE SplitComma(s, i + 1, Append(piece, s[i]))

NonEmptyName(g) == Len(g) > 0

\* .split(',').map(g => g.trim().toLowerCase()).filter(g => g.length > 0)
GestureNames(text) ==
    LET pieces == SplitComma(text, 1, <<>>)
    IN SelectSeq([i \in 1..Len(pieces) |-> ToLowerCase(Trim(pieces[i]))], NonEmptyName)

\* the keyframe made by the map callback for the animation at index
Keyframe(anim, index) ==
    [time |-> index * KeyframeStep,
     gesture |-> anim,
     description |-> PerformPrefix \o anim \o SignSuffix]

\* speechToSign: the result made from the answer raw
speechToSignResult(text, raw) ==
    LET animations == GestureNames(Trim(raw))
    IN [animations |-> IF Len(animations) > 0 THEN animations
                       ELSE <<ToLowerCase(text)>>,
        duration |-> Len(animations) * KeyframeStep,
        keyframes |-> [i \in 1..Len(animations) |-> Keyframe(animations[i], i - 1)]]

\* speechToSign: the result of the catch block
speechToSignCatch(text) ==
    [animations |-> <<ToLowerCase(text)>>,
     duration |-> KeyframeStep,
     keyframes |-> <<[time |-> 0,
                      gesture |-> ToLowerCase(text),
                      description |-> PerformPrefix \o text \o SignSuffix]>>]

InitSpeech ==
    /\ apiKeyEnv \in {None, Some("key")}
    /\ supabaseConfigured = FALSE
    /\ remote = <<>>
    /\ InitServices
    /\ InitCallIdle
    /\ InitCameraIdle
    /\ InitSimIdle
    /\ InitMatchIdle
    /\ InitSvcIdle
    /\ InitKeyIdle
    /\ InitSpeechIdle

SpeechRest == <<envVars, dsVars, aiVars, camVars, simVars, matchVars, svcVars, keyVars>>

\* speechToSign up to "await this.initializeGemini()"
SpeechToSign ==
    /\ spc = "idle"
    /\ \E text \in SpeechTexts : speechText' = text
    /\ gestureText' = None
    /\ speechResult' = None
    /\ spc' = "init"
    /\ IF isInitializing /\ initPromise.some
       THEN /\ speechOwnsInit' = FALSE
            /\ speechAwaited' = initPromise.v
            /\ UNCHANGED gemVars
       ELSE LET init == performInitialization(apiKeyEnv, modelVars)
            IN /\ speechOwnsInit' = TRUE
               /\ speechAwaited' = init.settled
               /\ isInitializing' = TRUE
               /\ initPromise' = Some(init.settled)
               /\ genAI' = init.models[1]
               /\ flashModel' = init.models[2]
               /\ proModel' = init.models[3]
               /\ currentApiKey' = init.models[4]
               /\ clients' = init.models[5]
               /\ UNCHANGED ctorPc
    /\ UNCHANGED SpeechRest

\* the constructor's initializeGemini() after "await this.initPromise"
SpeechConstructorInitDone ==
    /\ ctorPc = "await"
    /\ ctorPc' = "done"
    /\ isInitializing' = FALSE
    /\ UNCHANGED <<modelVars, initPromise, speechVars>>
    /\ UNCHANGED SpeechRest

\* after "await this.initializeGemini()": the finally of initializeGemini,
\* the check of proModel, the request; or the catch
SpeechAfterInitializeGemini ==
    /\ spc = "init"
    /\ isInitializing' = IF speechOwnsInit THEN FALSE ELSE isInitializing
    /\ IF speechAwaited = "rejected" \/ ~proModel.some
       THEN /\ speechResult' = Some(speechToSignCatch(speechText))
            /\ spc' = "done"
       ELSE /\ spc' = "request"
            /\ UNCHANGED speechResult
    /\ UNCHANGED <<modelVars, initPromise, ctorPc>>
    /\ UNCHANGED <<speechText, speechOwnsInit, speechAwaited, gestureText>>
    /\ UNCHANGED SpeechRest

\* the request is answered with a text
SpeechContentAnswers ==
    /\ spc = "request"
    /\ \E raw \in GestureTexts :
          /\ gestureText' = Some(raw)
          /\ speechResult' = Some(speechToSignResult(speechText, raw))
    /\ spc' = "done"
    /\ UNCHANGED <<gemVars, speechText, speechOwnsInit, speechAwaited>>
    /\ UNCHANGED SpeechRest

\* the request rejects, or response.text() throws: the catch
SpeechContentFails ==
    /\ spc = "request"
    /\ speechResult' = Some(speechToSignCatch(speechText))
    /\ spc' = "done"
    /\ UNCHANGED <<gemVars, speechText, speechOwnsInit, speechAwaited, gestureText>>
    /\ UNCHANGED SpeechRest

\* the caller has the result
SpeechToSignReturns ==
    /\ spc = "done"
    /\ spc' = "idle"
    /\ UNCHANGED <<gemVars, speechText, speechOwnsInit, speechAwaited, gestureText,
                   speechResult>>
    /\ UNCHANGED SpeechRest

NextSpeech ==
    \/ SpeechToSign
    \/ SpeechConstructorInitDone
    \/ SpeechAfterInitializeGemini
    \/ SpeechContentAnswers
    \/ SpeechContentFails
    \/ SpeechToSignReturns

SpecSpeech == InitSpeech /\ [][NextSpeech]_vars

---------------------------------------------------------------------------
(* The claims about the pipeline.  A call has its result when rpc = "done". *)

Returned == rpc = "done" /\ result.state = "resolved"

\* the request of this call failed: it rejected, response.text() threw, or
\* the model was never initialized
FallbackFailed == external \in {"rejected", "text_threw", "init_failed"}

(* C1: whatever the reference set and the outcome of the external call,    *)
(* the text AIService.recognizeSign returns, and the text the camera       *)
(* screen shows when startCapture is over, is not empty, not "unknown" and *)
(* not "no"; the local match of an entry labelled "no" or "unknown"        *)
(* included.                                                               *)
C1_TextNeverEmptyNorSentinel ==
    /\ Returned => result.value.text \notin (Sentinels \cup {<<>>})
    /\ (cpc = "idle" /\ shownFrom \in {"dataset", "ai", "catch"})
           => translatedText \notin (Sentinels \cup {<<>>})

(* C2: AIService.recognizeSign never raises to its caller: whatever fails, *)
(* the promise it returns resolves with a result of text, confidence,      *)
(* gestures and timestamp, and never rejects.                              *)
C2_RecognizeSignNeverRejects ==
    /\ result.state # "rejected"
    /\ rpc = "done" =>
           /\ result.state = "resolved"
           /\ DOMAIN result.value = {"text", "confidence", "gestures", "timestamp"}

\* the call whose extractImageFeatures threw has returned the catch's result
C2_ReturnedFromCatch ==
    /\ Returned
    /\ ~image.some
    /\ result.value.text = GESTURE

C4_EmptyAnswerGivesHello ==
    (Returned /\ geminiInvoked /\ external = "answered"
        /\ CleanText(geminiRaw.v) = <<>>)
        => result.value.text = HELLO

C4_ReturnedAfterEmptyAnswer ==
    /\ Returned
    /\ datasetResult.some
    /\ geminiRaw.some
    /\ NumLT(datasetResult.v.confidence, Threshold075)
    /\ external = "answered"
    /\ geminiRaw.v \in {<<>>, <<"!">>, <<" ">>}
    /\ result.value.text = HELLO

(* C5: when the external call answers a text that sanitizes to "unknown"   *)
(* or "no" ("UNKNOWN!!", "No."), the text of the result is "hello", not    *)
(* the sentinel.                                                           *)
C5_SentinelAnswerGivesHello ==
    (Returned /\ geminiInvoked /\ external = "answered"
        /\ CleanText(geminiRaw.v) \in Sentinels)
        => result.value.text = HELLO

(* C6: geminiService.recognizeSign is invoked if and only if the combined  *)
(* confidence of the local match does not exceed 0.75 strictly; when it    *)
(* does exceed 0.75, the result has the label of the matched entry as text *)
(* and the combined score as confidence, and no external call is made.     *)
C6_FallbackIffNotAboveThreshold ==
    (datasetResult.some /\ rpc \in {"init", "request", "gemret", "done"}) =>
        /\ geminiInvoked <=> ~NumGT(datasetResult.v.confidence, Threshold075)
        /\ NumGT(datasetResult.v.confidence, Threshold075) =>
              /\ Returned
              /\ result.value.text = datasetResult.v.label
              /\ result.value.confidence = datasetResult.v.confidence
              /\ requests = 0
              /\ external = "none"

\* the local branch has returned: a remote entry matched above 0.75
C6_LocalBranchReturned ==
    /\ Returned
    /\ datasetResult.some
    /\ NumGT(datasetResult.v.confidence, Threshold075)
    /\ ~geminiInvoked
    /\ result.value.text = datasetResult.v.label

(* C7: one call makes at most one generateContent request: a failed or     *)
(* empty response is not retried, and the local branch makes none.         *)
C7_AtMostOneRequest ==
    /\ requests <= 1
    /\ (datasetResult.some /\ rpc \in {"init", "request", "gemret", "done"}
           /\ NumGT(datasetResult.v.confidence, Threshold075)) => requests = 0
    /\ (rpc \in {"gemret", "done"} /\ external \in {"rejected", "text_threw", "answered"})
           => requests = 1

C7_FailedRequestNotRetried ==
    /\ rpc = "gemret"
    /\ external = "text_threw"
    /\ requests = 1

---------------------------------------------------------------------------
(* C8: for all vectors a and b of equal length (length 0 and components    *)
(* outside [0,1] included), calculateSimilarity(a, b) is a number s with   *)
(* 0 <= s <= 1.                                                            *)
C8_SimilarityInUnitInterval ==
    (simDone /\ Len(simA) = Len(simB)) =>
        /\ NumLE(Zero, simAB) /\ NumLE(simAB, One)
        /\ NumLE(Zero, simEntryAB) /\ NumLE(simEntryAB, One)

(* C9: for every vector a, of any length, the empty vector included,       *)
(* calculateSimilarity(a, a) equals 1.                                     *)
C9_SelfSimilarityIsOne ==
    (simDone /\ simA = simB) => (NumEQ(simAB, One) /\ NumEQ(simEntryAB, One))

(* C10: calculateSimilarity is symmetric: for all vectors a and b, of      *)
(* equal or unequal length, calculateSimilarity(a, b) is the same value as *)
(* calculateSimilarity(b, a) (NaN both ways for two empty vectors).        *)
C10_SimilaritySymmetric ==
    simDone => (simAB = simBA /\ simEntryAB = simEntryBA)

C10_SwappedUnequalVectors ==
    /\ simDone
    /\ simA # simB
    /\ Len(simA) = Len(simB)
    /\ Len(simA) > 0
    /\ NumGT(simAB, Zero)
    /\ NumLT(simAB, One)

---------------------------------------------------------------------------
(* The claims about the matchers.                                          *)

\* the entries findSignInDataset goes through, and its similarity to each
EntriesOfFind == LoadedForFind(findCase, refSet)
EntrySimilarity(j) == calculateSimilarityEntry(query, EntriesOfFind[j].features)

\* some entry of the held reference set has the length of the query
SomeComparable == \E j \in 1..Len(refSet) : Len(refSet[j].features) = Len(query)

(* C11: for vectors of unequal length calculateSimilarity returns 0; so an *)
(* entry whose features differ in length from the query is never selected  *)
(* over an entry of the query's length with a similarity above 0.          *)
C11_UnequalLengthNeverSelected ==
    matchDone =>
        /\ \A j \in 1..Len(refSet) :
              Len(refSet[j].features) # Len(query) => similarities[j] = Zero
        /\ \A j \in 1..Len(EntriesOfFind) :
              Len(EntriesOfFind[j].features) # Len(query) => EntrySimilarity(j) = Zero
        /\ (\E k \in 1..Len(refSet) :
               Len(refSet[k].features) = Len(query) /\ NumGT(similarities[k], Zero))
               => Len(matchBest.v.bestMatch.features) = Len(query)
        /\ found.some => Len(found.v.features) = Len(query)

\* the first entry has another length than the query, the second has the
\* query's length and a similarity above 0, and the second is the best match
C11_MatchingEntryBeatsEarlierMismatch ==
    /\ matchDone
    /\ Len(refSet) = 2
    /\ Len(refSet[1].features) # Len(query)
    /\ Len(refSet[2].features) = Len(query)
    /\ NumGT(similarities[2], Zero)
    /\ matchBest.v.bestMatch = refSet[2]

(* C12: the matcher returns the entry whose similarity to the query is the *)
(* greatest over the whole reference set, and among several entries of the *)
(* greatest similarity the first in the order of the reference set.        *)
C12_GreatestSimilarityFirstOnTies ==
    matchDone =>
        /\ refSet # <<>> =>
              \E k \in 1..Len(refSet) :
                 /\ refSet[k] = matchBest.v.bestMatch
                 /\ \A j \in 1..Len(refSet) : ~NumGT(similarities[j], similarities[k])
                 /\ \A j \in 1..(k - 1) : ~NumEQ(similarities[j], similarities[k])
        /\ found.some =>
              \E k \in 1..Len(EntriesOfFind) :
                 /\ EntriesOfFind[k] = found.v
                 /\ \A j \in 1..Len(EntriesOfFind) :
                       ~NumGT(EntrySimilarity(j), EntrySimilarity(k))
                 /\ \A j \in 1..(k - 1) : ~NumEQ(EntrySimilarity(j), EntrySimilarity(k))

C14_ConfidenceOfSelectedEntry ==
    (matchDone /\ refSet # <<>>) =>
        \E k \in 1..Len(refSet) :
           /\ refSet[k] = matchBest.v.bestMatch
           /\ ~IsNaN(similarities[k])
           /\ matchResult.v.confidence = TimesWeight(similarities[k], refSet[k].confidence)

(* C15: with an empty reference set the matcher returns its 'no match'     *)
(* value for every query, and reads no entry.                              *)
C15_EmptySetGivesNoMatch ==
    (matchDone /\ refSet = <<>>) =>
        /\ matchResult = Some([label |-> UNKNOWN, confidence |-> Rat(0, 1)])
        /\ similarities = <<>>
        /\ matchBest = None

C15_EmptySetAsked ==
    /\ matchDone
    /\ refSet = <<>>
    /\ query = FeaturesOfHello
    /\ matchResult.v.label = UNKNOWN

(* C16: with the single entry hello [0.8,0.9,0.7,0.85,0.92] of weight 0.95 *)
(* and that vector as query, the matcher returns "hello" with similarity   *)
(* 1.0 and combined confidence 0.95.                                       *)
C16_HelloExample ==
    (matchDone /\ refSet = <<Entry(<<"hello_1">>, HELLO, <<80, 90, 70, 85, 92>>, 95)>>
        /\ query = <<80, 90, 70, 85, 92>>) =>
        /\ matchResult.v.label = HELLO
        /\ NumEQ(similarities[1], One)
        /\ NumEQ(matchBest.v.bestSimilarity, One)
        /\ NumEQ(matchResult.v.confidence, Rat(95, 100))

C16_HelloAsked ==
    /\ matchDone
    /\ Len(refSet) = 1
    /\ refSet[1].id = <<"hello_1">>
    /\ query = refSet[1].features
    /\ matchResult.v.label = HELLO

---------------------------------------------------------------------------
(* The claims about the service and its callers.                           *)

\* caller c takes a step of its call of recognizeSign
CallStep(c) == calls'[c] # calls[c]

(* C17: a call of recognizeSign changes no state of the service, neither   *)
(* the held reference set nor the loaded flag, and two calls with the same *)
(* query, made with the same rows in the remote store, return the same     *)
(* label and confidence.                                                   *)
C17_MatcherHasNoSideEffect ==
    /\ [][ \A c \in Callers :
              CallStep(c) => (dataset' = dataset /\ isLoaded' = isLoaded) ]_vars
    /\ [] (\A c, d \in Callers :
              (/\ calls[c].pc = "done"
               /\ calls[d].pc = "done"
               /\ calls[c].imageFeatures = calls[d].imageFeatures
               /\ calls[c].stored = calls[d].stored)
                 => calls[c].returned = calls[d].returned)

(* C18: the confidence of every result the pipeline returns lies in [0,1]: *)
(* on the local path, after an answered fallback and on the degraded path, *)
(* for every reference set with features and weights in [0,1].             *)
C18_ConfidenceInUnitInterval ==
    Returned =>
        /\ NumGE(result.value.confidence, Zero)
        /\ NumLE(result.value.confidence, One)

\* the local path has returned a combined confidence above 0.75
C18_LocalConfidenceReturned ==
    /\ Returned
    /\ ~geminiInvoked
    /\ datasetResult.some
    /\ result.value.confidence = datasetResult.v.confidence
    /\ NumGT(result.value.confidence, Threshold075)

\* what the pipeline returns when the request of the fallback fails
DegradedRecognition == FallbackResult(GeminiCatch(0).value).value

\* the answer of the external call has no word in it
EmptyAnswer == external = "answered" /\ CleanText(geminiRaw.v) = <<>>

Snapshots ==
    {getBuiltInDataset} \cup
    {processSupabaseDatasets(SubSeq(remote, 1, n)) : n \in 1..Len(remote)}

(* C20: however calls of recognizeSign interleave with a refresh of the    *)
(* reference set, each call computes its best match over one complete      *)
(* snapshot of the set, the one before the refresh or the one after it,    *)
(* never a mixture or a set built in part.                                 *)
C20_ScanOverOneSnapshot ==
    /\ isLoaded => dataset \in Snapshots
    /\ \A c \in Callers :
          calls[c].pc = "done" =>
             /\ calls[c].scanned.v \in Snapshots
             /\ calls[c].returned.v =
                   recognizeSignOver(calls[c].scanned.v, calls[c].imageFeatures)

\* a call has scanned the snapshot from before the upload while the reload
\* of the upload is under way
C20_ScannedOldSnapshotDuringRefresh ==
    \E c \in Callers :
       /\ calls[c].pc = "done"
       /\ upc = "load"
       /\ ~isLoaded
       /\ Len(remote) > 1
       /\ calls[c].scanned.v = processSupabaseDatasets(SubSeq(remote, 1, Len(remote) - 1))
       /\ calls[c].scanned.v # processSupabaseDatasets(remote)

---------------------------------------------------------------------------
(* The claims about loading, uploading and the services' other calls.      *)

\* every entry of the built-in list is in the entries
HoldsBuiltIn(entries) ==
    \A i \in 1..Len(getBuiltInDataset) :
       \E j \in 1..Len(entries) : entries[j] = getBuiltInDataset[i]

(* C21: once the reference set is loaded it holds every entry of the       *)
(* built-in list, whether or not the remote store returned entries: remote *)
(* entries extend the built-in list and never replace it, and the loaded   *)
(* set is never empty.                                                     *)
C21_LoadedSetHoldsBuiltIn ==
    isLoaded => (HoldsBuiltIn(dataset) /\ dataset # <<>>)

\* an error path of the pipeline has run: the catch block of
\* AIService.recognizeSign (extractImageFeatures threw), a failed external
\* call, or an answer without a word in it
CatchRan == ~image.some
ExternalSubstituted == geminiInvoked /\ (FallbackFailed \/ EmptyAnswer)

C23_ConfidenceAtLeastThreshold ==
    Returned =>
        /\ NumGE(result.value.confidence, Threshold075)
        /\ (~CatchRan /\ ~geminiInvoked) => NumGT(result.value.confidence, Threshold075)
        /\ (~CatchRan /\ geminiInvoked) => NumGE(result.value.confidence, Threshold08)
        /\ CatchRan => result.value.confidence = Threshold075

\* the local match scored 0.75 exactly, and the fallback result was returned
C23_FallbackAfterMatchAtThreshold ==
    /\ Returned
    /\ geminiInvoked
    /\ datasetResult.some
    /\ NumEQ(datasetResult.v.confidence, Threshold075)
    /\ NumGE(result.value.confidence, Threshold08)

\* caller c enters loadDataset; a call waiting in "load" has issued its
\* remote query and awaits the rows
EntersLoad(c) == calls[c].pc = "idle" /\ calls'[c].pc # "idle"

(* C24: loadDataset never throws and ends with isLoaded = true; a call of  *)
(* loadDataset made while isLoaded is true issues no remote query and      *)
(* leaves the held dataset unchanged, until uploadDataset resets the flag; *)
(* calls of loadDataset that overlap before the first one completes each   *)
(* issue their own remote query.                                           *)
C24_LoadOnceUntilReset ==
    [][ /\ \A c \in Callers :
              /\ (EntersLoad(c) /\ isLoaded) =>
                     /\ calls'[c].pc = "scan"
                     /\ dataset' = dataset
                     /\ isLoaded' = isLoaded
              /\ (EntersLoad(c) /\ ~isLoaded) => calls'[c].pc = "load"
              /\ (CallStep(c) /\ calls[c].pc = "load") =>
                     (isLoaded' /\ calls'[c].pc = "scan")
        /\ (upc = "load" /\ upc' # upc) => (isLoaded' /\ upc' = "idle")
        /\ (isLoaded /\ ~isLoaded') => (upc = "insert" /\ upc' = "load") ]_vars

\* two calls of loadDataset overlap, each waiting for its own query
C24_TwoLoadsInFlight ==
    \E c, d \in Callers :
       /\ c # d
       /\ calls[c].pc = "load"
       /\ calls[d].pc = "load"
       /\ ~isLoaded

\* uploadDataset returns {success: false, error} / {success: true, datasetId}
UploadReturnsFailure == upc = "insert" /\ upc' = "idle"
UploadReturnsSuccess == upc = "load" /\ upc' = "idle"

\* an upload has stored its row and returned: the table starts with one row
\* at most, and no upload is under way
UploadSucceeded == Len(remote) > 1 /\ upc = "idle"

(* C25: uploadDataset returns {success: false, error} without throwing     *)
(* when the insert reports an error, and then leaves the held dataset and  *)
(* the flag isLoaded unchanged; it returns {success: true, datasetId} only *)
(* after the reference set has been reloaded from the remote store, so a   *)
(* recognizeSign call started after a successful upload matches against    *)
(* the reloaded set.                                                       *)
C25_SuccessOnlyAfterReload ==
    /\ [][ /\ UploadReturnsFailure => (dataset' = dataset /\ isLoaded' = isLoaded)
           /\ UploadReturnsSuccess =>
                  (isLoaded' /\ dataset' = processSupabaseDatasets(remote')) ]_vars
    /\ [] ((UploadSucceeded /\ isLoaded) => dataset = processSupabaseDatasets(remote))

\* an initialization is in flight: initializeGemini of the constructor or of
\* a call has started performInitialization and waits at
\* "await this.initPromise"
InitInFlight == ctorPc = "await" \/ (rpc = "init" /\ ownsInit)

\* a call of initializeGemini starts performInitialization
StartsInitialization == rpc # "init" /\ rpc' = "init" /\ ownsInit'

(* C26: calls of initializeGemini made while an initialization is in       *)
(* flight share it: performInitialization is not started a second time     *)
(* while one is in progress; with the API key unchanged the client and the *)
(* models are created at most once; and isInitializing is false whenever   *)
(* no initialization is in flight, also after one that failed.             *)
C26_OneInitializationInFlight ==
    /\ [] (/\ ~InitInFlight => ~isInitializing
           /\ clients <= 1
           /\ ~(ctorPc = "await" /\ rpc = "init" /\ ownsInit))
    /\ [][ /\ StartsInitialization => ~InitInFlight
           /\ clients' # clients => (clients = 0 /\ ~InitInFlight) ]_vars

\* a call of recognizeSign awaits the initialization the constructor started
C26_CallSharesConstructorInit ==
    /\ rpc = "init"
    /\ geminiInvoked
    /\ ~ownsInit
    /\ ctorPc = "await"
    /\ isInitializing
    /\ awaited = initPromise.v

(* C27: updateApiKey returns true only if the new key passed the           *)
(* validation call; when it returns false the current key, the client, the *)
(* models and the persisted key are as they were before the call; when it  *)
(* returns true, currentApiKey is the new key and both models belong to    *)
(* the client built from that key.                                         *)
C27_KeyUpdatedOnlyWhenValidated ==
    kpc = "done" =>
        /\ returnedKey = Some(TRUE) =>
               /\ validated
               /\ keyFields.currentApiKey = newApiKey
               /\ keyFields.genAI = newApiKey
               /\ keyFields.flashModel = keyFields.genAI
               /\ keyFields.proModel = keyFields.genAI
        /\ returnedKey = Some(FALSE) =>
               /\ keyFields = before.v.keyFields
               /\ persisted = before.v.persisted

(* C28: every execution of startCapture that sets isCapturing to true sets *)
(* it back to false in the end, on every path: the local match with its    *)
(* early return, the recognition by the AI service, missing image data and *)
(* any thrown error; and a startCapture made while the camera is not ready *)
(* changes neither isCapturing nor the text shown.                         *)
C28_CaptureAlwaysEnds ==
    /\ isCapturing ~> (~isCapturing /\ cpc = "idle")
    /\ [][ ~isCameraReady =>
              (isCapturing' = isCapturing /\ translatedText' = translatedText) ]_vars
    /\ [] (cpc = "idle" => ~isCapturing)

\* a capture has ended in the catch block, with the flag set back
C28_CaptureEndedInCatch ==
    /\ cpc = "idle"
    /\ shownFrom = "catch"
    /\ alert = "error"
    /\ ~isCapturing
    /\ isCameraReady

\* the entry of the searched list at j is above the threshold of 0.8
AboveThreshold(j) == NumGT(EntrySimilarity(j), Threshold08)

\* findSignInDataset returned the first entry of the searched list above 0.8
FoundIsFirstAbove ==
    /\ found.some <=> \E j \in 1..Len(EntriesOfFind) : AboveThreshold(j)
    /\ found.some =>
          \E k \in 1..Len(EntriesOfFind) :
             /\ found.v = EntriesOfFind[k]
             /\ AboveThreshold(k)
             /\ \A j \in 1..(k - 1) : ~AboveThreshold(j)

(* C29, as the code has it: findSignInDataset returns an entry if and only *)
(* if some entry of the list loadDataset gave it (the built-in entries,    *)
(* then the remote ones) has a similarity to the query strictly above 0.8, *)
(* and it returns the first such entry; when the remote load fails the     *)
(* list is the built-in entries alone, which are still searched; it        *)
(* returns null when the matching throws, and never throws itself.         *)
C29_FirstEntryAboveThreshold ==
    matchDone =>
        /\ DOMAIN found \in {{"some"}, {"some", "v"}}
        /\ findCase = "loaded" =>
              (EntriesOfFind = localDataset \o refSet /\ FoundIsFirstAbove)
        /\ findCase = "load_failed" =>
              (EntriesOfFind = localDataset /\ FoundIsFirstAbove)
        /\ findCase = "no_features" => found = None

\* the remote load failed, and an entry of the built-in list was returned
C29_FoundAfterFailedLoad ==
    /\ matchDone
    /\ findCase = "load_failed"
    /\ refSet # <<>>
    /\ found.some
    /\ found.v = localDataset[1]

\* C29 as stated: null is returned when loading or matching fails
C29_NullWhenLoadingFails ==
    matchDone =>
        /\ findCase = "loaded" => FoundIsFirstAbove
        /\ findCase \in {"load_failed", "no_features"} => found = None

---------------------------------------------------------------------------
(* The claim about speechToSign.  A call has its result when spc = "done". *)

\* one keyframe per animation, at index * 1500, and 1500 for each animation
ConsistentResult(r) ==
    /\ Len(r.animations) > 0
    /\ Len(r.keyframes) = Len(r.animations)
    /\ \A i \in 1..Len(r.keyframes) : r.keyframes[i].time = (i - 1) * KeyframeStep
    /\ r.duration = KeyframeStep * Len(r.animations)

\* the answer held no gesture name after split, trim and filter
NoGestureNames == gestureText.some /\ GestureNames(Trim(gestureText.v)) = <<>>

(* C30: every result of speechToSign is internally consistent: animations  *)
(* is non-empty, keyframes has one keyframe per animation with time =      *)
(* index * 1500, and duration = 1500 * (number of animations); on the      *)
(* success path, when the answer holds no gesture names, and on the error  *)
(* path.                                                                   *)
C30_ResultInternallyConsistent ==
    spc = "done" => ConsistentResult(speechResult.v)

====
